---- MODULE Spec2Model ----
(***************************************************************************)
(* The search-adapter layer of the research agent (src/tools.py):          *)
(* extract_domain and the three adapters search_tavily, search_exa and     *)
(* search_with_urls.  Text is modelled character by character: a Python    *)
(* str is a sequence of one-character strings, so slicing, prefixes,       *)
(* substrings and line structure are those of the real strings.            *)
(***************************************************************************)
EXTENDS Integers, Sequences, FiniteSets

VARIABLES pc, fn, args, trace, outcome, result

vars == <<pc, fn, args, trace, outcome, result>>

(***************************************************************************)
(* Bounds of the model.                                                    *)
(***************************************************************************)
\* longest enumerated URL body handed to extract_domain
MaxUrlLen == 3
\* longest result list a backend reply carries, and largest ceiling asked for
MaxResults == 2
\* longest urls list handed to search_with_urls
MaxUrls == 2

(***************************************************************************)
(* Python str operations on character sequences.                           *)
(***************************************************************************)
\* t[i:i+len(p)] == p  (1-based i)
IsAt(t, p, i) ==
  /\ i >= 1
  /\ i + Len(p) - 1 <= Len(t)
  /\ \A j \in 1..Len(p) : t[i + j - 1] = p[j]

\* t.startswith(p)
StartsWith(t, p) == IsAt(t, p, 1)

\* p in t
Contains(t, p) == \E i \in 1..(Len(t) - Len(p) + 1) : IsAt(t, p, i)

\* c in t, for one character c
HasChar(t, c) == \E i \in 1..Len(t) : t[i] = c

\* t[:n]
Take(t, n) == SubSeq(t, 1, IF n < Len(t) THEN n ELSE Len(t))

\* t[n:]
Drop(t, n) == SubSeq(t, n + 1, Len(t))

\* t.find(c, start) for one character c, 1-based; 0 when absent
Find(t, c, start) ==
  IF \A i \in start..Len(t) : t[i] # c THEN 0
  ELSE CHOOSE i \in start..Len(t) :
         t[i] = c /\ \A j \in start..(i - 1) : t[j] # c

\* t.lstrip(chars)
LStrip(t, chars) ==
  IF \A i \in 1..Len(t) : t[i] \in chars THEN <<>>
  ELSE SubSeq(t, CHOOSE i \in 1..Len(t) :
                   t[i] \notin chars /\ \A j \in 1..(i - 1) : t[j] \in chars,
              Len(t))

\* t with every character of chars removed (str.replace(b, "") for each b)
Remove(t, chars) == SelectSeq(t, LAMBDA c : c \notin chars)

\* t.split(sep) for one character sep: the parts between the separators
Split(t, sep) ==
  LET P == {i \in 1..Len(t) : t[i] = sep}
      n == Cardinality(P)
      cut(k) == IF k = 0 THEN 0
                ELSE IF k = n + 1 THEN Len(t) + 1
                ELSE CHOOSE i \in P : Cardinality({j \in P : j < i}) = k - 1
  IN [k \in 1..(n + 1) |-> SubSeq(t, cut(k - 1) + 1, cut(k) - 1)]

Digits == {"0", "1", "2", "3", "4", "5", "6", "7", "8", "9"}

LowerLetters ==
  {"a", "b", "c", "d", "e", "f", "g", "h", "i", "j", "k", "l", "m",
   "n", "o", "p", "q", "r", "s", "t", "u", "v", "w", "x", "y", "z"}

UpperLetters ==
  {"A", "B", "C", "D", "E", "F", "G", "H", "I", "J", "K", "L", "M",
   "N", "O", "P", "Q", "R", "S", "T", "U", "V", "W", "X", "Y", "Z"}

Letters == LowerLetters \cup UpperLetters

HexDigits == Digits \cup {"a", "b", "c", "d", "e", "f", "A", "B", "C", "D", "E", "F"}

DigitValue(c) ==
  CASE c = "0" -> 0 [] c = "1" -> 1 [] c = "2" -> 2 [] c = "3" -> 3 [] c = "4" -> 4
    [] c = "5" -> 5 [] c = "6" -> 6 [] c = "7" -> 7 [] c = "8" -> 8 [] c = "9" -> 9

DigitChar(d) == <<"0", "1", "2", "3", "4", "5", "6", "7", "8", "9">>[d + 1]

\* str(i) for an integer i >= 0
RECURSIVE IntToStr(_)
IntToStr(i) == IF i < 10 THEN <<DigitChar(i)>>
               ELSE IntToStr(i \div 10) \o <<DigitChar(i % 10)>>

(***************************************************************************)
(* urllib.parse.urlparse as extract_domain uses it: only .netloc is read,  *)
(* so the model computes the netloc, or that urlparse raises ValueError.   *)
(***************************************************************************)
\* the scheme characters of urllib.parse
SchemeChars == Letters \cup Digits \cup {"+", "-", "."}

\* the characters urlsplit strips from the left (those a TLA+ string can hold)
C0ControlOrSpace == {" ", "\t", "\n", "\r"}

\* the characters urlsplit removes everywhere
UnsafeUrlBytes == {"\t", "\r", "\n"}

\* the least element of a non-empty set of integers
Least(S) == CHOOSE i \in S : \A j \in S : i <= j

\* ipaddress.IPv4Address._parse_octet accepts o
IPv4OctetOk(o) ==
  /\ Len(o) >= 1
  /\ \A i \in 1..Len(o) : o[i] \in Digits
  /\ Len(o) <= 3
  /\ (Len(o) > 1 => o[1] # "0")
  /\ (Len(o) = 3 =>
        100 * DigitValue(o[1]) + 10 * DigitValue(o[2]) + DigitValue(o[3]) <= 255)

IPv4OctetsOk(octets) ==
  /\ Len(octets) = 4
  /\ \A k \in 1..4 : IPv4OctetOk(octets[k])

\* ipaddress.IPv4Address(s) accepts s
IsIPv4(s) == ~HasChar(s, "/") /\ IPv4OctetsOk(Split(s, "."))

\* ipaddress.IPv6Address._parse_hextet accepts h
IPv6HextetOk(h) ==
  /\ Len(h) >= 1
  /\ Len(h) <= 4
  /\ \A i \in 1..Len(h) : h[i] \in HexDigits

\* the parts around the one "::" at index skip: parts_hi before it, parts_lo after
IPv6SkipOk(parts, skip, n) ==
  /\ (parts[1] = <<>> => skip - 1 = 1)
  /\ (parts[n] = <<>> => n - skip = 1)
  /\ 8 - ((IF parts[1] = <<>> THEN skip - 2 ELSE skip - 1)
          + (IF parts[n] = <<>> THEN n - skip - 1 ELSE n - skip)) >= 1
  /\ \A i \in 1..(skip - 1) : (i > 1 \/ parts[1] # <<>>) => IPv6HextetOk(parts[i])
  /\ \A i \in (skip + 1)..n : (i < n \/ parts[n] # <<>>) => IPv6HextetOk(parts[i])

\* the empty parts strictly inside are the "::"; at most one is allowed
IPv6EmptiesOk(parts, empties, n) ==
  /\ Cardinality(empties) <= 1
  /\ IF empties # {}
     THEN IPv6SkipOk(parts, Least(empties), n)
     ELSE n = 8 /\ \A i \in 1..n : IPv6HextetOk(parts[i])

IPv6PartsOk(parts) ==
  /\ Len(parts) <= 9
  /\ IPv6EmptiesOk(parts, {i \in 2..(Len(parts) - 1) : parts[i] = <<>>}, Len(parts))

\* the parts between the colons; an IPv4 tail stands for two hextets
IPv6RawOk(raw, nraw) ==
  /\ nraw >= 3
  /\ IF HasChar(raw[nraw], ".")
     THEN /\ IsIPv4(raw[nraw])
          /\ IPv6PartsOk(SubSeq(raw, 1, nraw - 1) \o << <<"0">>, <<"0">> >>)
     ELSE IPv6PartsOk(raw)

IPv6AddrOk(addr) == Len(addr) >= 1 /\ IPv6RawOk(Split(addr, ":"), Len(Split(addr, ":")))

\* _split_scope_id: the address before "%", and a scope id that is not empty
IPv6ScopedOk(s, pct) ==
  IF pct = 0 THEN IPv6AddrOk(s)
  ELSE /\ Len(s) > pct
       /\ ~HasChar(Drop(s, pct), "%")
       /\ IPv6AddrOk(SubSeq(s, 1, pct - 1))

\* ipaddress.IPv6Address(s) accepts s
IsIPv6(s) == ~HasChar(s, "/") /\ IPv6ScopedOk(s, Find(s, "%", 1))

\* re.match(r"\Av[a-fA-F0-9]+\..+\Z", h) for h starting with "v"
IPvFutureOk(h, nonhex) ==
  /\ nonhex # {}
  /\ Least(nonhex) >= 3
  /\ h[Least(nonhex)] = "."
  /\ Len(h) > Least(nonhex)

\* urllib.parse._check_bracketed_host(hostname) returns without raising:
\* ipaddress.ip_address(hostname) must succeed and not be an IPv4Address
BracketedHostOk(h) ==
  IF StartsWith(h, <<"v">>)
  THEN IPvFutureOk(h, {i \in 2..Len(h) : h[i] \notin HexDigits})
  ELSE IsIPv6(h)

\* netloc.partition('[')[2].partition(']')[0]
UpToBracket(afterOpen, endHost) ==
  IF endHost = 0 THEN afterOpen ELSE SubSeq(afterOpen, 1, endHost - 1)

BracketedHost(netloc) ==
  UpToBracket(Drop(netloc, Find(netloc, "[", 1)),
              Find(Drop(netloc, Find(netloc, "[", 1)), "]", 1))

\* the checks urlsplit makes on the netloc: TRUE when it raises ValueError
NetlocRaises(netloc) ==
  \/ (HasChar(netloc, "[") /\ ~HasChar(netloc, "]"))
  \/ (HasChar(netloc, "]") /\ ~HasChar(netloc, "["))
  \/ (HasChar(netloc, "[") /\ HasChar(netloc, "]")
        /\ ~BracketedHostOk(BracketedHost(netloc)))

Parsed(netloc) == [raised |-> NetlocRaises(netloc), netloc |-> netloc]

\* _splitnetloc(url, 2): from after "//" up to the first of "/", "?", "#"
SplitNetloc(url, delims) ==
  SubSeq(url, 3, IF delims = {} THEN Len(url) ELSE Least(delims) - 1)

\* url with its scheme removed: the netloc is read only behind "//"
AfterScheme(url) ==
  Parsed(IF IsAt(url, <<"/", "/">>, 1)
         THEN SplitNetloc(url, {j \in 3..Len(url) : url[j] \in {"/", "?", "#"}})
         ELSE <<>>)

\* url[:i] is a scheme when it starts with a letter and holds scheme characters
SplitScheme(url, i) ==
  IF /\ i > 1
     /\ url[1] \in Letters
     /\ \A j \in 1..(i - 1) : url[j] \in SchemeChars
  THEN AfterScheme(Drop(url, i))
  ELSE AfterScheme(url)

Stripped(url) == SplitScheme(url, Find(url, ":", 1))

\* urlparse(url): [raised |-> ValueError was raised, netloc |-> .netloc]
urlparse(url) == Stripped(Remove(LStrip(url, C0ControlOrSpace), UnsafeUrlBytes))

(***************************************************************************)
(* extract_domain (src/tools.py lines 14-23).                              *)
(***************************************************************************)
SchemeSep == <<":", "/", "/">>
HttpPrefix == <<"h", "t", "t", "p", ":", "/", "/">>
WwwPrefix == <<"w", "w", "w", ".">>

\* lines 20-21
StripWww(domain) == IF StartsWith(domain, WwwPrefix) THEN Drop(domain, 4) ELSE domain

\* lines 19-23 with url as line 18 left it: the bare except returns whatever
\* the name url is bound to when urlparse raised
ParseOrReturn(url, parsed) == IF parsed.raised THEN url ELSE StripWww(parsed.netloc)

ExtractFrom(url) == ParseOrReturn(url, urlparse(url))

\* lines 17-18 rebind the local name url
extract_domain(url) ==
  ExtractFrom(IF ~Contains(url, SchemeSep) THEN HttpPrefix \o url ELSE url)

(***************************************************************************)
(* Inputs.                                                                 *)
(***************************************************************************)
UrlAlphabet == {"w", ".", "a", ":", "/", "[", "]", "@", "?"}

RECURSIVE SeqsUpTo(_, _)
SeqsUpTo(S, n) ==
  IF n = 0 THEN {<<>>}
  ELSE LET shorter == SeqsUpTo(S, n - 1)
       IN shorter \cup {s \o <<c>> : s \in {x \in shorter : Len(x) = n - 1}, c \in S}

UrlPrefixes == {<<>>, HttpPrefix, WwwPrefix, HttpPrefix \o WwwPrefix}

\* 'https://www.example.com/path'
UrlExamplePath ==
  <<"h","t","t","p","s",":","/","/","w","w","w",".","e","x","a","m","p","l","e",".","c","o","m","/","p","a","t","h">>
\* 'example.com'
UrlExample ==
  <<"e","x","a","m","p","l","e",".","c","o","m">>
\* 'https://www.nu.edu.eg/page'
UrlNuPage ==
  <<"h","t","t","p","s",":","/","/","w","w","w",".","n","u",".","e","d","u",".","e","g","/","p","a","g","e">>

ExampleUrls ==
  { UrlExamplePath,
    UrlExample,
    UrlNuPage,
    <<"h","t","t","p",":","/","/","[",":",":","1","]",":","8","0","/","x">>,
    <<"[",":",":","f","f","f","f",":","1",".","2",".","3",".","4","]">>,
    <<"[","v","1",".","a","]">>,
    <<"u","@","w","w","w",".","a",".","c","o",":","8","0","8","0","/","x","?","q","#","f">>,
    <<" ","a",".","c","o","\n","m">> }

UrlInputs ==
  {p \o b : p \in UrlPrefixes, b \in SeqsUpTo(UrlAlphabet, MaxUrlLen)} \cup ExampleUrls

(***************************************************************************)
(* Text of search_tavily (src/tools.py lines 27-50).                       *)
(***************************************************************************)
\* 'Tavily searching: '
TavilyLogPrefix ==
  <<"T","a","v","i","l","y"," ","s","e","a","r","c","h","i","n","g",":"," ">>
\* '**Tavily Data:**\n'
TavilyHeader ==
  <<"*","*","T","a","v","i","l","y"," ","D","a","t","a",":","*","*","\n">>
\* 'Quick Summary: '
QuickSummaryPrefix ==
  <<"Q","u","i","c","k"," ","S","u","m","m","a","r","y",":"," ">>
\* '. '
EntrySep ==
  <<"."," ">>
\* ' - '
TitleUrlSep ==
  <<" ","-"," ">>
\* '\nSnippet: '
SnippetPrefix ==
  <<"\n","S","n","i","p","p","e","t",":"," ">>
\* '\n'
Newline ==
  <<"\n">>
\* "Notice: No Tavily results for '"
TavilyNoticePrefix ==
  <<"N","o","t","i","c","e",":"," ","N","o"," ","T","a","v","i","l","y"," ","r","e","s","u","l","t","s"," ","f","o","r"," ","'">>
\* "'."
NoticeQuerySuffix ==
  <<"'",".">>
\* 'Tavily Error: '
TavilyErrorLogPrefix ==
  <<"T","a","v","i","l","y"," ","E","r","r","o","r",":"," ">>
\* 'Error: Tavily failed ('
TavilyErrorPrefix ==
  <<"E","r","r","o","r",":"," ","T","a","v","i","l","y"," ","f","a","i","l","e","d"," ","(">>
\* ')'
CloseParen ==
  <<")">>

(***************************************************************************)
(* Text of search_exa (src/tools.py lines 54-74).                          *)
(***************************************************************************)
\* 'Exa searching: '
ExaLogPrefix ==
  <<"E","x","a"," ","s","e","a","r","c","h","i","n","g",":"," ">>
\* '**Exa Neural Data:**\n'
ExaHeader ==
  <<"*","*","E","x","a"," ","N","e","u","r","a","l"," ","D","a","t","a",":","*","*","\n">>
\* '\nText: '
TextPrefix ==
  <<"\n","T","e","x","t",":"," ">>
\* '...\n'
Ellipsis ==
  <<".",".",".","\n">>
\* "Notice: No Exa results for '"
ExaNoticePrefix ==
  <<"N","o","t","i","c","e",":"," ","N","o"," ","E","x","a"," ","r","e","s","u","l","t","s"," ","f","o","r"," ","'">>
\* 'Exa Error: '
ExaErrorLogPrefix ==
  <<"E","x","a"," ","E","r","r","o","r",":"," ">>
\* 'Error: Exa failed ('
ExaErrorPrefix ==
  <<"E","r","r","o","r",":"," ","E","x","a"," ","f","a","i","l","e","d"," ","(">>

(***************************************************************************)
(* Text of search_with_urls (src/tools.py lines 78-99).                    *)
(***************************************************************************)
\* 'Specific URL search in: '
UrlsLogPrefix ==
  <<"S","p","e","c","i","f","i","c"," ","U","R","L"," ","s","e","a","r","c","h"," ","i","n",":"," ">>
\* '**Targeted Domain Results:**\n'
UrlsHeader ==
  <<"*","*","T","a","r","g","e","t","e","d"," ","D","o","m","a","i","n"," ","R","e","s","u","l","t","s",":","*","*","\n">>
\* '- '
BulletPrefix ==
  <<"-"," ">>
\* ' ('
OpenUrl ==
  <<" ","(">>
\* '): '
CloseUrl ==
  <<")",":"," ">>
\* 'Notice: No data found within domains '
UrlsNoticePrefix ==
  <<"N","o","t","i","c","e",":"," ","N","o"," ","d","a","t","a"," ","f","o","u","n","d"," ","w","i","t","h","i","n"," ","d","o","m","a","i","n","s"," ">>
\* '.'
Period ==
  <<".">>
\* 'Domain search error: '
UrlsErrorLogPrefix ==
  <<"D","o","m","a","i","n"," ","s","e","a","r","c","h"," ","e","r","r","o","r",":"," ">>
\* 'Error: Domain search failed ('
UrlsErrorPrefix ==
  <<"E","r","r","o","r",":"," ","D","o","m","a","i","n"," ","s","e","a","r","c","h"," ","f","a","i","l","e","d"," ","(">>

(***************************************************************************)
(* Messages of the exceptions the backends and the reading of a reply raise.*)
(***************************************************************************)
\* "'NoneType' object is not subscriptable"
NotSubscriptable ==
  <<"'","N","o","n","e","T","y","p","e","'"," ","o","b","j","e","c","t"," ","i","s"," ","n","o","t"," ","s","u","b","s","c","r","i","p","t","a","b","l","e">>
\* 'No API key provided'
MsgNoKey ==
  <<"N","o"," ","A","P","I"," ","k","e","y"," ","p","r","o","v","i","d","e","d">>
\* 'timed out'
MsgTimeout ==
  <<"t","i","m","e","d"," ","o","u","t">>
\* '401 Unauthorized'
MsgUnauthorized ==
  <<"4","0","1"," ","U","n","a","u","t","h","o","r","i","z","e","d">>

(***************************************************************************)
(* Sample values of the callers' and the backends' strings.                *)
(***************************************************************************)
\* 'X'
QueryX ==
  <<"X">>
\* 'nile innovation'
QueryNile ==
  <<"n","i","l","e"," ","i","n","n","o","v","a","t","i","o","n">>
\* 'Alpha'
TitleA ==
  <<"A","l","p","h","a">>
\* 'https://a.co/1'
UrlA ==
  <<"h","t","t","p","s",":","/","/","a",".","c","o","/","1">>
\* 'short text'
ContentShort ==
  <<"s","h","o","r","t"," ","t","e","x","t">>
\* 'Beta'
TitleB ==
  <<"B","e","t","a">>
\* 'https://b.org'
UrlB ==
  <<"h","t","t","p","s",":","/","/","b",".","o","r","g">>
\* 'Gamma'
TitleC ==
  <<"G","a","m","m","a">>
\* 'https://c.net'
UrlC ==
  <<"h","t","t","p","s",":","/","/","c",".","n","e","t">>
\* 'An answer'
AnswerText ==
  <<"A","n"," ","a","n","s","w","e","r">>
\* '[x'
UrlBadBracket ==
  <<"[","x">>
\* 'nu.edu.eg'
DomainNu ==
  <<"n","u",".","e","d","u",".","e","g">>

(***************************************************************************)
(* Values of the backends: a field of a reply is a str, None or absent.    *)
(***************************************************************************)
\* r['content'][:200] (src/tools.py lines 45, 69, 94)
SnippetLimit == 200
\* text={"max_characters": 800} (src/tools.py line 61)
ExaMaxCharacters == 800

Str(t) == [tag |-> "str", text |-> t]
None == [tag |-> "None", text |-> <<>>]
Missing == [tag |-> "missing", text |-> <<>>]

\* a snippet longer than the limit, no two neighbouring characters alike
LongContent ==
  [i \in 1..(SnippetLimit + 3) |->
     IF i > SnippetLimit THEN "z" ELSE IF i % 2 = 1 THEN "a" ELSE "b"]

ItemA == [title |-> TitleA, url |-> UrlA, content |-> Str(ContentShort)]
ItemB == [title |-> TitleB, url |-> UrlB, content |-> Str(LongContent)]
\* a result whose snippet is null: slicing it raises TypeError
ItemC == [title |-> TitleC, url |-> UrlC, content |-> None]

ItemPool == {ItemA, ItemB, ItemC}

List(items) == [tag |-> "list", items |-> items]
NoList(tag) == [tag |-> tag, items |-> <<>>]

ResultLists == {List(s) : s \in SeqsUpTo(ItemPool, MaxResults)}

\* what tavily.search returns: a dict with 'results' and, when asked, 'answer'
TavilyResponses(include_answer) ==
  {[results |-> rs, answer |-> a] :
     rs \in ResultLists \cup {NoList("missing"), NoList("None")},
     a \in IF include_answer THEN {Missing, Str(<<>>), Str(AnswerText)} ELSE {Missing}}

\* what exa.search_and_contents returns: an object with a results attribute,
\* each result with the attributes title, url and text
ExaItem(it) == [title |-> it.title, url |-> it.url, text |-> it.content]

ExaResponses ==
  {[results |-> rs] :
     rs \in {List([i \in 1..Len(l.items) |-> ExaItem(l.items[i])]) : l \in ResultLists}
            \cup {NoList("None")}}

\* bool(x) of Python for a results value and for a str-or-None value
TruthyList(rs) == rs.tag = "list" /\ Len(rs.items) > 0
TruthyStr(v) == v.tag = "str" /\ Len(v.text) > 0

NoExc == [type |-> "", transient |-> FALSE, msg |-> <<>>]
NoResponse == [results |-> NoList("missing")]

\* the client constructors reject an absent API key
MissingAPIKeyError == [type |-> "MissingAPIKeyError", transient |-> FALSE, msg |-> MsgNoKey]

\* failures of the outbound call: one that may pass on a retry, one that will not
BackendErrors ==
  { [type |-> "TimeoutError", transient |-> TRUE, msg |-> MsgTimeout],
    [type |-> "InvalidAPIKeyError", transient |-> FALSE, msg |-> MsgUnauthorized] }

\* raised by None[:200]
TypeError == [type |-> "TypeError", transient |-> FALSE, msg |-> NotSubscriptable]

Reply(r) == [kind |-> "reply", response |-> r, exc |-> NoExc]
Exception(e) == [kind |-> "exception", response |-> NoResponse, exc |-> e]
NoOutcome == [kind |-> "none", response |-> NoResponse, exc |-> NoExc]

\* what reading a reply gives: the text, or the exception it raised
Returned(t) == [raised |-> FALSE, exc |-> NoExc, text |-> t]
Raised(e) == [raised |-> TRUE, exc |-> e, text |-> <<>>]

NoRequest == [backend |-> "none"]
LogEvent(level, text) == [ev |-> "log", level |-> level, text |-> text, request |-> NoRequest]
RequestEvent(req) == [ev |-> "request", level |-> "", text |-> <<>>, request |-> req]

\* how a call ends: the value returned or the exception propagated, with
\* the log lines written on the way
Return(t, logs) == [kind |-> "return", text |-> t, exc |-> NoExc, logs |-> logs]
Propagate(e, logs) == [kind |-> "raise", text |-> <<>>, exc |-> e, logs |-> logs]

\* os.getenv(name): None when the variable is not set
ApiKeyValues == {"None", "key"}

RECURSIVE ConcatFrom(_, _)
ConcatFrom(ss, i) == IF i > Len(ss) THEN <<>> ELSE ss[i] \o ConcatFrom(ss, i + 1)

Concat(ss) == ConcatFrom(ss, 1)

\* repr of a list of str (no quote, backslash or control character inside)
RECURSIVE PyReprItems(_, _)
PyReprItems(l, i) ==
  IF i > Len(l) THEN <<>>
  ELSE (IF i > 1 THEN <<",", " ">> ELSE <<>>)
       \o <<"'">> \o l[i] \o <<"'">> \o PyReprItems(l, i + 1)

PyReprList(l) == <<"[">> \o PyReprItems(l, 1) \o <<"]">>

(***************************************************************************)
(* search_tavily (src/tools.py lines 25-50).                               *)
(***************************************************************************)
search_tavily_log(query) == LogEvent("info", TavilyLogPrefix \o query)

search_tavily_request(query, search_depth, max_results) ==
  [backend |-> "tavily", query |-> query, search_depth |-> search_depth,
   max_results |-> max_results, include_answer |-> TRUE]

\* enumerate(results) without its start: the entries are numbered from 0
TavilyEntry_FromZero(i, r) ==
  IntToStr(i - 1) \o EntrySep \o r.title \o TitleUrlSep \o r.url
    \o SnippetPrefix \o Take(r.content.text, SnippetLimit) \o Newline

TavilyEntry(i, r) ==
  IntToStr(i) \o EntrySep \o r.title \o TitleUrlSep \o r.url
    \o SnippetPrefix \o Take(r.content.text, SnippetLimit) \o Newline

\* lines 37-47: the reply is read inside the try
search_tavily_read(query, response) ==
  LET items == response.results.items
  IN IF ~TruthyList(response.results)
     THEN Returned(TavilyNoticePrefix \o query \o NoticeQuerySuffix)
     ELSE IF \E i \in 1..Len(items) : items[i].content.tag # "str"
     THEN Raised(TypeError)
     ELSE Returned(TavilyHeader
                   \o (IF TruthyStr(response.answer)
                       THEN QuickSummaryPrefix \o response.answer.text \o Newline
                       ELSE <<>>)
                   \o Concat([i \in 1..Len(items) |-> TavilyEntry(i, items[i])]))

\* lines 48-50
search_tavily_except(e) ==
  Return(TavilyErrorPrefix \o e.msg \o CloseParen,
         <<LogEvent("error", TavilyErrorLogPrefix \o e.msg)>>)

\* the rest of the call once the try block has its reply or its exception
search_tavily_complete(query, out) ==
  IF out.kind = "exception" THEN search_tavily_except(out.exc)
  ELSE LET rd == search_tavily_read(query, out.response)
       IN IF rd.raised THEN search_tavily_except(rd.exc) ELSE Return(rd.text, <<>>)

(***************************************************************************)
(* search_exa (src/tools.py lines 52-74).                                  *)
(***************************************************************************)
search_exa_log(query) == LogEvent("info", ExaLogPrefix \o query)

search_exa_request(query, num_results, use_autoprompt) ==
  [backend |-> "exa", query |-> query, num_results |-> num_results,
   use_autoprompt |-> use_autoprompt, max_characters |-> ExaMaxCharacters]

\* r.text without the [:200]
ExaEntry_NoSlice(i, r) ==
  IntToStr(i) \o EntrySep \o r.title \o TitleUrlSep \o r.url
    \o TextPrefix \o r.text.text \o Ellipsis

ExaEntry(i, r) ==
  IntToStr(i) \o EntrySep \o r.title \o TitleUrlSep \o r.url
    \o TextPrefix \o Take(r.text.text, SnippetLimit) \o Ellipsis

\* lines 64-71 without the test for an empty result list
search_exa_read_NoEmptyCheck(query, response) ==
  IF response.results.tag # "list" \/ \E i \in 1..Len(response.results.items) :
                                        response.results.items[i].text.tag # "str"
  THEN Raised(TypeError)
  ELSE Returned(ExaHeader \o Concat([i \in 1..Len(response.results.items) |->
                                       ExaEntry(i, response.results.items[i])]))

\* lines 64-71
search_exa_read(query, response) ==
  LET items == response.results.items
  IN IF ~TruthyList(response.results)
     THEN Returned(ExaNoticePrefix \o query \o NoticeQuerySuffix)
     ELSE IF \E i \in 1..Len(items) : items[i].text.tag # "str"
     THEN Raised(TypeError)
     ELSE Returned(ExaHeader \o Concat([i \in 1..Len(items) |-> ExaEntry(i, items[i])]))

\* lines 72-74
search_exa_except(e) ==
  Return(ExaErrorPrefix \o e.msg \o CloseParen,
         <<LogEvent("error", ExaErrorLogPrefix \o e.msg)>>)

search_exa_complete(query, out) ==
  IF out.kind = "exception" THEN search_exa_except(out.exc)
  ELSE LET rd == search_exa_read(query, out.response)
       IN IF rd.raised THEN search_exa_except(rd.exc) ELSE Return(rd.text, <<>>)

(***************************************************************************)
(* search_with_urls (src/tools.py lines 76-99).                            *)
(***************************************************************************)
search_with_urls_log(urls) == LogEvent("info", UrlsLogPrefix \o PyReprList(urls))

\* the urls handed on as they came
search_with_urls_domains_Raw(urls) == urls

\* line 79
search_with_urls_domains(urls) == [i \in 1..Len(urls) |-> extract_domain(urls[i])]

\* a request that goes to the backend use_tool names
search_with_urls_request_Branching(query, urls, use_tool, max_results) ==
  IF use_tool = "exa"
  THEN [backend |-> "exa", query |-> query, num_results |-> max_results,
        use_autoprompt |-> TRUE, max_characters |-> ExaMaxCharacters]
  ELSE [backend |-> "tavily", query |-> query,
        include_domains |-> [i \in 1..Len(urls) |-> extract_domain(urls[i])],
        max_results |-> max_results, include_answer |-> FALSE]

\* lines 82-87: use_tool is in scope and is not read
search_with_urls_request(query, urls, use_tool, max_results) ==
  [backend |-> "tavily", query |-> query,
   include_domains |-> search_with_urls_domains(urls),
   max_results |-> max_results, include_answer |-> FALSE]

UrlsEntry(r) ==
  BulletPrefix \o r.title \o OpenUrl \o r.url \o CloseUrl
    \o Take(r.content.text, SnippetLimit) \o Newline

\* lines 89-96 with a loop that stops one result early
search_with_urls_read_DropsLast(urls, use_tool, response) ==
  IF ~TruthyList(response.results)
  THEN Returned(UrlsNoticePrefix
                \o PyReprList([i \in 1..Len(urls) |-> extract_domain(urls[i])]) \o Period)
  ELSE IF \E i \in 1..Len(response.results.items) :
            response.results.items[i].content.tag # "str"
  THEN Raised(TypeError)
  ELSE Returned(UrlsHeader \o Concat([i \in 1..(Len(response.results.items) - 1) |->
                                        UrlsEntry(response.results.items[i])]))

\* lines 89-96
search_with_urls_read(urls, use_tool, response) ==
  LET items == response.results.items
  IN IF ~TruthyList(response.results)
     THEN Returned(UrlsNoticePrefix \o PyReprList(search_with_urls_domains(urls)) \o Period)
     ELSE IF \E i \in 1..Len(items) : items[i].content.tag # "str"
     THEN Raised(TypeError)
     ELSE Returned(UrlsHeader \o Concat([i \in 1..Len(items) |-> UrlsEntry(items[i])]))

\* a handler that logs and lets the exception go on to the caller
search_with_urls_except_Reraise(e) ==
  Propagate(e, <<LogEvent("error", UrlsErrorLogPrefix \o e.msg)>>)

\* lines 97-99
search_with_urls_except(e) ==
  Return(UrlsErrorPrefix \o e.msg \o CloseParen,
         <<LogEvent("error", UrlsErrorLogPrefix \o e.msg)>>)

search_with_urls_complete(urls, use_tool, out) ==
  IF out.kind = "exception" THEN search_with_urls_except(out.exc)
  ELSE LET rd == search_with_urls_read(urls, use_tool, out.response)
       IN IF rd.raised THEN search_with_urls_except(rd.exc) ELSE Return(rd.text, <<>>)

(***************************************************************************)
(* Callers' arguments.                                                     *)
(***************************************************************************)
Queries == {QueryX, QueryNile}
SearchDepths == {"basic", "advanced"}
Ceilings == 1..MaxResults
UseTools == {"auto", "exa", "tavily", "other"}
UrlPool == {UrlNuPage, UrlBadBracket}
UrlLists == SeqsUpTo(UrlPool, MaxUrls)
Adapters == {"search_tavily", "search_exa", "search_with_urls"}

(***************************************************************************)
(* State machine: one call at a time, from its entry to its return.        *)
(***************************************************************************)
NoArgs == [query |-> <<>>]
NoResult == [kind |-> "none", text |-> <<>>]

Init ==
  /\ pc = "idle"
  /\ fn = "none"
  /\ args = NoArgs
  /\ trace = <<>>
  /\ outcome = NoOutcome
  /\ result = NoResult

Call_extract_domain(url) ==
  /\ pc = "idle"
  /\ pc' = "done"
  /\ fn' = "extract_domain"
  /\ args' = [url |-> url]
  /\ trace' = <<>>
  /\ outcome' = NoOutcome
  /\ result' = [kind |-> "return", text |-> extract_domain(url)]

\* line 27
Call_search_tavily(query, search_depth, max_results) ==
  /\ pc = "idle"
  /\ pc' = "try"
  /\ fn' = "search_tavily"
  /\ args' = [query |-> query, search_depth |-> search_depth, max_results |-> max_results]
  /\ trace' = <<search_tavily_log(query)>>
  /\ UNCHANGED <<outcome, result>>

\* line 54
Call_search_exa(query, num_results, use_autoprompt) ==
  /\ pc = "idle"
  /\ pc' = "try"
  /\ fn' = "search_exa"
  /\ args' = [query |-> query, num_results |-> num_results, use_autoprompt |-> use_autoprompt]
  /\ trace' = <<search_exa_log(query)>>
  /\ UNCHANGED <<outcome, result>>

\* lines 78-79
Call_search_with_urls(query, urls, use_tool, max_results) ==
  /\ pc = "idle"
  /\ pc' = "try"
  /\ fn' = "search_with_urls"
  /\ args' = [query |-> query, urls |-> urls, use_tool |-> use_tool, max_results |-> max_results]
  /\ trace' = <<search_with_urls_log(urls)>>
  /\ UNCHANGED <<outcome, result>>

\* the request the adapter in progress sends
RequestOf(f, a) ==
  CASE f = "search_tavily" -> search_tavily_request(a.query, a.search_depth, a.max_results)
    [] f = "search_exa" -> search_exa_request(a.query, a.num_results, a.use_autoprompt)
    [] f = "search_with_urls" ->
         search_with_urls_request(a.query, a.urls, a.use_tool, a.max_results)

\* lines 29-35, 56-62, 82-87: the client is built with the key the environment
\* holds at call time, then the one outbound call is made
Send ==
  /\ pc = "try"
  /\ \E key \in ApiKeyValues :
       \/ /\ key = "None"
          /\ outcome' = Exception(MissingAPIKeyError)
          /\ pc' = "resumed"
          /\ UNCHANGED trace
       \/ /\ key # "None"
          /\ trace' = Append(trace, RequestEvent(RequestOf(fn, args)))
          /\ pc' = "await"
          /\ UNCHANGED outcome
  /\ UNCHANGED <<fn, args, result>>

LastRequest == trace[Len(trace)].request

RepliesTo(req) ==
  IF req.backend = "exa" THEN ExaResponses ELSE TavilyResponses(req.include_answer)

\* the backend answers the outbound call
BackendReply ==
  /\ pc = "await"
  /\ \E r \in RepliesTo(LastRequest) : outcome' = Reply(r)
  /\ pc' = "resumed"
  /\ UNCHANGED <<fn, args, trace, result>>

\* the outbound call raises
BackendRaise ==
  /\ pc = "await"
  /\ \E e \in BackendErrors : outcome' = Exception(e)
  /\ pc' = "resumed"
  /\ UNCHANGED <<fn, args, trace, result>>

CompletionOf(f, a, out) ==
  CASE f = "search_tavily" -> search_tavily_complete(a.query, out)
    [] f = "search_exa" -> search_exa_complete(a.query, out)
    [] f = "search_with_urls" -> search_with_urls_complete(a.urls, a.use_tool, out)

\* a completion that goes back to the try block after a failure a retry may cure
Complete_Retry ==
  /\ pc = "resumed"
  /\ IF outcome.kind = "exception" /\ outcome.exc.transient
     THEN /\ pc' = "try"
          /\ outcome' = NoOutcome
          /\ UNCHANGED <<fn, args, trace, result>>
     ELSE /\ result' = [kind |-> CompletionOf(fn, args, outcome).kind,
                        text |-> CompletionOf(fn, args, outcome).text]
          /\ trace' = trace \o CompletionOf(fn, args, outcome).logs
          /\ pc' = "done"
          /\ UNCHANGED <<fn, args, outcome>>

\* lines 37-50, 64-74, 89-99: the call runs to its return
Complete ==
  /\ pc = "resumed"
  /\ LET c == CompletionOf(fn, args, outcome)
     IN /\ result' = [kind |-> c.kind, text |-> c.text]
        /\ trace' = trace \o c.logs
  /\ pc' = "done"
  /\ UNCHANGED <<fn, args, outcome>>

\* the caller has the result; the call leaves nothing behind
Finish ==
  /\ pc = "done"
  /\ pc' = "idle"
  /\ fn' = "none"
  /\ args' = NoArgs
  /\ trace' = <<>>
  /\ outcome' = NoOutcome
  /\ result' = NoResult

\* a caller invokes one of the four functions, with arguments of its choice,
\* when no call is in progress
Next ==
  \/ pc = "idle" /\ \E url \in UrlInputs : Call_extract_domain(url)
  \/ pc = "idle" /\ \E q \in Queries, d \in SearchDepths, n \in Ceilings :
                       Call_search_tavily(q, d, n)
  \/ pc = "idle" /\ \E q \in Queries, n \in Ceilings, ap \in BOOLEAN :
                       Call_search_exa(q, n, ap)
  \/ pc = "idle" /\ \E q \in Queries, us \in UrlLists, t \in UseTools, n \in Ceilings :
                       Call_search_with_urls(q, us, t, n)
  \/ Send
  \/ BackendReply
  \/ BackendRaise
  \/ Complete
  \/ Finish

Spec == Init /\ [][Next]_vars

(***************************************************************************)
(* Reading a returned text back: its lines and its result entries.         *)
(***************************************************************************)
\* the literal texts the properties look for
ErrorMark == <<"E","r","r","o","r",":">>
NoTavilyResults == <<"N","o"," ","T","a","v","i","l","y"," ","r","e","s","u","l","t","s">>
NoExaResults == <<"N","o"," ","E","x","a"," ","r","e","s","u","l","t","s">>
NoDataFound == <<"N","o"," ","d","a","t","a"," ","f","o","u","n","d">>

Done(f) == pc = "done" /\ fn = f
AdapterDone == pc = "done" /\ fn \in Adapters

\* the requests sent so far in the call in progress
Requests == SelectSeq(trace, LAMBDA e : e.ev = "request")

\* the snippet of a backend item: content for Tavily, text for Exa
SnippetOf(f, item) == IF f = "search_exa" THEN item.text ELSE item.content

\* a successful reply with a non-empty result list
HasResults(out) == out.kind = "reply" /\ TruthyList(out.response.results)

\* a successful reply with no result: missing, null or empty list
ZeroResults(out) == out.kind = "reply" /\ ~TruthyList(out.response.results)

\* reading the reply raises: an item's snippet is null
Unreadable(f, out) ==
  /\ HasResults(out)
  /\ \E i \in 1..Len(out.response.results.items) :
       SnippetOf(f, out.response.results.items[i]).tag # "str"

Readable(f, out) == HasResults(out) /\ ~Unreadable(f, out)

\* the first character of every line of t
LineStarts(t) == {i \in 1..Len(t) : i = 1 \/ t[i - 1] = "\n"}

\* the lines of t that begin with p
LinesWith(t, p) == {i \in LineStarts(t) : IsAt(t, p, i)}

\* the k-th least element of S
Kth(S, k) == CHOOSE i \in S : Cardinality({j \in S : j < i}) = k - 1

\* one past the last character of the line that starts at i
LineEnd(t, i) == IF Find(t, "\n", i) = 0 THEN Len(t) + 1 ELSE Find(t, "\n", i)

\* the text that opens the snippet line of an entry
EntryMark(f) ==
  CASE f = "search_tavily" -> Drop(SnippetPrefix, 1)
    [] f = "search_exa" -> Drop(TextPrefix, 1)
    [] f = "search_with_urls" -> BulletPrefix

EntryLines(f, t) == LinesWith(t, EntryMark(f))
EntryCount(f, t) == Cardinality(EntryLines(f, t))

\* the first place at or after i where p stands
FirstAt(t, p, i) ==
  CHOOSE j \in i..Len(t) : IsAt(t, p, j) /\ \A k \in i..(j - 1) : ~IsAt(t, p, k)

\* the snippet printed on the entry line that starts at i
PrintedSnippet(f, t, i) ==
  CASE f = "search_tavily" -> SubSeq(t, i + Len(EntryMark(f)), LineEnd(t, i) - 1)
    [] f = "search_exa" -> SubSeq(t, i + Len(EntryMark(f)), LineEnd(t, i) - 4)
    [] f = "search_with_urls" ->
         SubSeq(t, FirstAt(t, CloseUrl, i) + Len(CloseUrl), LineEnd(t, i) - 1)

IsPrefix(p, t) == Len(p) <= Len(t) /\ SubSeq(t, 1, Len(p)) = p

\* the ceiling the caller passed
CeilingOf(f, a) == IF f = "search_exa" THEN a.num_results ELSE a.max_results

\* the ceiling a request carries to the backend
RequestedCeiling(req) == IF req.backend = "exa" THEN req.num_results ELSE req.max_results

(***************************************************************************)
(* C1.  When building the client, the backend call or the reading of the   *)
(* reply raises, the adapter does not raise: it returns a text that begins *)
(* with "Error:".                                                          *)
(***************************************************************************)
C1_FailuresBecomeErrorText ==
  (AdapterDone /\ (outcome.kind = "exception" \/ Unreadable(fn, outcome)))
    => (result.kind = "return" /\ StartsWith(result.text, ErrorMark))

C1_Witness ==
  /\ Done("search_with_urls")
  /\ outcome.exc.type = "MissingAPIKeyError"
  /\ StartsWith(result.text, ErrorMark)

(***************************************************************************)
(* C2.  When the backend answers with zero results (missing, null or empty *)
(* list, with or without an answer), the adapter returns its notice: a     *)
(* non-empty text holding "No Tavily results", "No Exa results" or "No     *)
(* data found", not an "Error:" text and not an exception; and no adapter  *)
(* call returns the empty text.                                            *)
(***************************************************************************)
NoticeMark(f) ==
  CASE f = "search_tavily" -> NoTavilyResults
    [] f = "search_exa" -> NoExaResults
    [] f = "search_with_urls" -> NoDataFound

C2_EmptyResultNotice ==
  /\ (AdapterDone /\ ZeroResults(outcome))
       => /\ result.kind = "return"
          /\ Contains(result.text, NoticeMark(fn))
          /\ ~StartsWith(result.text, ErrorMark)
  /\ (AdapterDone /\ result.kind = "return") => result.text # <<>>

C2_Witness ==
  /\ Done("search_tavily")
  /\ outcome.kind = "reply"
  /\ outcome.response.results.tag = "None"
  /\ outcome.response.answer = Str(AnswerText)
  /\ Contains(result.text, NoTavilyResults)

(***************************************************************************)
(* C3.  extract_domain never raises, and whenever parsing fails it returns *)
(* the input exactly as the caller passed it, with or without a scheme.    *)
(***************************************************************************)
\* urlparse raises on what extract_domain hands it for the input url
ParseFails(url) ==
  urlparse(IF Contains(url, SchemeSep) THEN url ELSE HttpPrefix \o url).raised

C3_FailOpenReturnsInput ==
  Done("extract_domain")
    => /\ result.kind = "return"
       /\ (ParseFails(args.url) => result.text = args.url)

(***************************************************************************)
(* C4.  For every input that parses, extract_domain returns the bare host: *)
(* no scheme, no path or query, no user or port, no leading "www.";        *)
(* "https://www.example.com/path" and "example.com" both give              *)
(* "example.com"; an input without a scheme gives what the same input      *)
(* behind "http://" gives.                                                 *)
(***************************************************************************)
\* a colon outside an IPv6 literal's brackets: a port or a password
ColonOutsideBrackets(h) ==
  \E i \in 1..Len(h) :
    /\ h[i] = ":"
    /\ ~(\E j \in 1..(i - 1) : h[j] = "[" /\ \A k \in j..i : h[k] # "]")

BareHost(h) ==
  /\ ~Contains(h, SchemeSep)
  /\ \A i \in 1..Len(h) : h[i] \notin {"/", "?", "#", "@"}
  /\ ~ColonOutsideBrackets(h)
  /\ ~StartsWith(h, WwwPrefix)

C4_BareHost ==
  (Done("extract_domain") /\ ~ParseFails(args.url))
    => /\ BareHost(result.text)
       /\ (args.url \in {UrlExamplePath, UrlExample} => result.text = UrlExample)
       /\ (~Contains(args.url, SchemeSep)
             => result.text = extract_domain(HttpPrefix \o args.url))

(***************************************************************************)
(* C5.  As claimed: the text lists at most n entries, n the ceiling the    *)
(* caller passed, even when the backend returns more than n results.       *)
(***************************************************************************)
C5_AtMostCeiling ==
  (AdapterDone /\ result.kind = "return")
    => EntryCount(fn, result.text) <= CeilingOf(fn, args)

(***************************************************************************)
(* C5, amended.  The text lists exactly as many entries as the reply holds *)
(* results (none for a notice or an error text): the adapter hands the     *)
(* ceiling to the backend and does not cut the list itself, so the entries *)
(* stay within n whenever the reply does.                                  *)
(***************************************************************************)
C5_EntriesMatchReply ==
  (AdapterDone /\ result.kind = "return")
    => /\ EntryCount(fn, result.text)
            = (IF Readable(fn, outcome) THEN Len(outcome.response.results.items) ELSE 0)
       /\ Requests # <<>> => CeilingOf(fn, args) = RequestedCeiling(Requests[1].request)
       /\ (Readable(fn, outcome)
             /\ Len(outcome.response.results.items) <= CeilingOf(fn, args))
            => EntryCount(fn, result.text) <= CeilingOf(fn, args)

C5_Witness ==
  /\ Done("search_exa")
  /\ Readable(fn, outcome)
  /\ args.num_results = 1
  /\ Len(outcome.response.results.items) = 2
  /\ EntryCount(fn, result.text) = 2

(***************************************************************************)
(* C6.  search_tavily on a readable reply of k >= 1 results: after the     *)
(* header comes exactly one "Quick Summary:" line when the reply has a     *)
(* non-empty answer, and no such line when it has none; then exactly k     *)
(* entries follow, numbered 1..k in the order of the reply.                *)
(***************************************************************************)
\* 1 when the reply carries a non-empty answer
SummaryLines(out) == IF TruthyStr(out.response.answer) THEN 1 ELSE 0

\* the line that opens entry i: number, title and url of result i
EntryHead(i, item) ==
  IntToStr(i) \o EntrySep \o item.title \o TitleUrlSep \o item.url \o Newline

C6_Layout(t, out, items) ==
  /\ StartsWith(t, TavilyHeader)
  /\ Cardinality(LinesWith(t, QuickSummaryPrefix)) = SummaryLines(out)
  /\ (SummaryLines(out) = 1 =>
        /\ IsAt(t, QuickSummaryPrefix \o out.response.answer.text \o Newline,
                Len(TavilyHeader) + 1)
        /\ LinesWith(t, QuickSummaryPrefix) = {Kth(LineStarts(t), 2)})
  /\ Cardinality(LineStarts(t)) = 1 + SummaryLines(out) + 2 * Len(items)
  /\ EntryCount("search_tavily", t) = Len(items)
  /\ \A i \in 1..Len(items) :
       /\ IsAt(t, EntryHead(i, items[i]),
               Kth(LineStarts(t), SummaryLines(out) + 2 * i))
       /\ IsAt(t, EntryMark("search_tavily"),
               Kth(LineStarts(t), SummaryLines(out) + 2 * i + 1))

C6_SummaryThenNumberedEntries ==
  (Done("search_tavily") /\ Readable(fn, outcome))
    => /\ result.kind = "return"
       /\ C6_Layout(result.text, outcome, outcome.response.results.items)

C6_Witness ==
  /\ Done("search_tavily")
  /\ Readable(fn, outcome)
  /\ args.query = QueryX
  /\ args.search_depth = "advanced"
  /\ args.max_results = 2
  /\ outcome.response.answer = Str(AnswerText)
  /\ outcome.response.results.items = <<ItemB, ItemA>>
  /\ Cardinality(LinesWith(result.text, QuickSummaryPrefix)) = 1

(***************************************************************************)
(* C7.  The include_domains filter search_with_urls sends is the list of   *)
(* extract_domain(u) for each u of urls, one per input and in input order; *)
(* urls = ["https://www.nu.edu.eg/page"] sends ["nu.edu.eg"].              *)
(***************************************************************************)
C7_FilterIsNormalizedUrls ==
  fn = "search_with_urls"
    => \A k \in 1..Len(Requests) :
         /\ Len(Requests[k].request.include_domains) = Len(args.urls)
         /\ \A i \in 1..Len(args.urls) :
              Requests[k].request.include_domains[i] = extract_domain(args.urls[i])
         /\ (args.urls = <<UrlNuPage>>
               => Requests[k].request.include_domains = <<DomainNu>>)

C7_Witness ==
  /\ fn = "search_with_urls"
  /\ pc = "await"
  /\ args.urls = <<UrlNuPage>>
  /\ Len(Requests) = 1
  /\ Requests[1].request.include_domains = <<DomainNu>>

(***************************************************************************)
(* C8.  In every entry of a returned text the printed snippet is at most   *)
(* 200 characters long and is a prefix of the backend's snippet (content   *)
(* for Tavily and search_with_urls, text for Exa), all of it when the      *)
(* backend's snippet is that short.                                        *)
(***************************************************************************)
C8_Entry(f, t, item, i) ==
  /\ Len(PrintedSnippet(f, t, i)) <= SnippetLimit
  /\ IsPrefix(PrintedSnippet(f, t, i), SnippetOf(f, item).text)
  /\ (Len(SnippetOf(f, item).text) <= SnippetLimit
        => PrintedSnippet(f, t, i) = SnippetOf(f, item).text)

C8_SnippetTruncated ==
  (AdapterDone /\ result.kind = "return")
    => \A k \in 1..EntryCount(fn, result.text) :
         /\ k <= Len(outcome.response.results.items)
         /\ C8_Entry(fn, result.text, outcome.response.results.items[k],
                     Kth(EntryLines(fn, result.text), k))

C8_Witness ==
  /\ Done("search_exa")
  /\ Readable(fn, outcome)
  /\ outcome.response.results.items[1] = ExaItem(ItemB)
  /\ Len(PrintedSnippet(fn, result.text, Kth(EntryLines(fn, result.text), 1)))
       = SnippetLimit

InfoLineOf(f, a) ==
  CASE f = "search_tavily" -> search_tavily_log(a.query)
    [] f = "search_exa" -> search_exa_log(a.query)
    [] f = "search_with_urls" -> search_with_urls_log(a.urls)

\* the same failure with the other answer to "would a retry help"
OtherKind(out) == Exception([out.exc EXCEPT !.transient = ~out.exc.transient])

C10_OneRequestNoRetry ==
  fn \in Adapters
    => /\ Len(Requests) <= 1
       /\ trace[1] = InfoLineOf(fn, args)
       /\ \A i \in 1..Len(trace) : trace[i].ev = "request" => i = 2
       /\ pc = "done"
            => /\ result.kind = "return"
               /\ outcome.kind = "exception"
                    => /\ StartsWith(result.text, ErrorMark)
                       /\ result.text = CompletionOf(fn, args, OtherKind(outcome)).text

C10_Witness ==
  /\ Done("search_tavily")
  /\ outcome.kind = "exception"
  /\ outcome.exc.transient
  /\ Len(Requests) = 1
  /\ StartsWith(result.text, ErrorMark)

====
